---- MODULE Spec2Model ----
(***************************************************************************)
(* magify.py: the template generation tool.  One run validates the three   *)
(* roots, resolves the scripts version, rebuilds every valid template      *)
(* under the templates root and writes scripts_version.txt.                *)
(*                                                                         *)
(* The filesystem is a function from paths (sequences of entry names) to   *)
(* nodes; a path that is not in its domain does not exist.  Strings the    *)
(* program slices or measures are sequences of one-character strings.      *)
(***************************************************************************)
EXTENDS Integers, Sequences, FiniteSets, TLC

VARIABLES
    fs,                  \* the filesystem
    args,                \* parsed command line: scripts_version (-v)
    git_stdout,          \* what `git log -1 --format="%aI"` prints in the scripts root
    pc,                  \* position of the run in the module body
    exit_code,           \* process exit status once pc = "exited", else NoExit
    scripts_last_commit, \* the global of that name: [set, value]
    templates,           \* entries of os.listdir(templates_path) not yet visited
    path_created,        \* distutils.dir_util._path_created of this process
    run,                 \* number of the current invocation
    run_start,           \* filesystem when the current invocation started
    prev_exit,           \* exit status of the previous invocation, NoExit in the first
    built,               \* templates for which build_template returned in this run
    skipped,             \* entries the template loop skipped in this run
    git_called,          \* whether get_scripts_last_commit ran in this run
    writes,              \* number of times this run wrote scripts_version.txt
    last                 \* the last step of the template loop: [op, entry, before, ok]

vars == <<fs, args, git_stdout, pc, exit_code, scripts_last_commit, templates,
          path_created, run, run_start, prev_exit, built, skipped, git_called,
          writes, last>>

----------------------------------------------------------------------------
(* Bounds *)

MaxRuns == 2

----------------------------------------------------------------------------
(* Constants of the program *)

SCRIPTS_DIR == "Scripts"
SCRIPTS_VERSION_FILE == "scripts_version.txt"
IGNORED == {".git", ".gitignore", "README.md"}
DATE_LEN == 25
DATE_PREFIX == 10
HEADER_LINE ==
    <<"T", "e", "m", "p", "l", "a", "t", "e", "s", " ", "w", "e", "r", "e", " ",
      "c", "r", "e", "a", "t", "e", "d", " ", "w", "i", "t", "h", " ", "t", "h",
      "e", " ", "f", "o", "l", "l", "o", "w", "i", "n", "g", " ", "s", "c", "r",
      "i", "p", "t", "s", " ", "v", "e", "r", "s", "i", "o", "n", ":", "\n">>

NoExit == 0 - 1

templates_path == <<"t">>
scripts_path == <<"s">>
base_path == <<"b">>

----------------------------------------------------------------------------
(* The filesystem *)

Dir == [kind |-> "dir", data |-> <<>>]
File(d) == [kind |-> "file", data |-> d]

Exists(f, p) == p \in DOMAIN f
IsDir(f, p) == p \in DOMAIN f /\ f[p].kind = "dir"
IsFile(f, p) == p \in DOMAIN f /\ f[p].kind = "file"

IsPrefix(p, q) == Len(p) <= Len(q) /\ SubSeq(q, 1, Len(p)) = p
Parent(p) == SubSeq(p, 1, Len(p) - 1)
Basename(p) == p[Len(p)]

Listdir(f, p) ==
    {q[Len(q)] : q \in {r \in DOMAIN f : Len(r) = Len(p) + 1 /\ IsPrefix(p, r)}}

\* The tree rooted at p, as relative paths with their nodes; empty when p
\* does not exist.
Subtree(f, p) ==
    {<<SubSeq(q, Len(p) + 1, Len(q)), f[q]>> : q \in {r \in DOMAIN f : IsPrefix(p, r)}}

Without(f, p) == [q \in {r \in DOMAIN f : ~IsPrefix(p, r)} |-> f[q]]
With(f, p, node) == [q \in DOMAIN f \cup {p} |-> IF q = p THEN node ELSE f[q]]

\* An operation acts on [fs, created, ok]: the filesystem, the mkpath cache
\* and whether no exception has been raised so far.  Once an exception is
\* raised nothing further happens.
Raise(st) == [st EXCEPT !.ok = FALSE]

\* shutil.rmtree(path)
rmtree(st, path) ==
    IF ~st.ok THEN st
    ELSE IF ~IsDir(st.fs, path) THEN Raise(st)
    ELSE [st EXCEPT !.fs = Without(st.fs, path)]

\* os.remove(path)
os_remove(st, path) ==
    IF ~st.ok THEN st
    ELSE IF ~IsFile(st.fs, path) THEN Raise(st)
    ELSE [st EXCEPT !.fs = Without(st.fs, path)]

\* shutil.copyfile(src, dst)
copyfile(st, src, dst) ==
    IF ~st.ok THEN st
    ELSE IF ~IsFile(st.fs, src) THEN Raise(st)
    ELSE IF IsDir(st.fs, dst) \/ ~IsDir(st.fs, Parent(dst)) THEN Raise(st)
    ELSE [st EXCEPT !.fs = With(st.fs, dst, File(st.fs[src].data))]

\* distutils.file_util.copy_file(src, dst)
copy_file(st, src, dst) ==
    LET d == IF IsDir(st.fs, dst) THEN dst \o <<Basename(src)>> ELSE dst
    IN  IF ~st.ok THEN st
        ELSE IF ~IsFile(st.fs, src) THEN Raise(st)
        ELSE IF IsDir(st.fs, d) \/ ~IsDir(st.fs, Parent(d)) THEN Raise(st)
        ELSE [st EXCEPT !.fs = With(st.fs, d, File(st.fs[src].data))]

\* The loop of distutils.dir_util.mkpath over the directories to create:
\* name[1..i] is the next one.  A cached path is taken to exist; os.mkdir
\* raises when the path exists as a file or its parent is missing.
RECURSIVE mkpath_loop(_, _, _)
mkpath_loop(st, name, i) ==
    IF ~st.ok \/ i > Len(name) THEN st
    ELSE LET head == SubSeq(name, 1, i)
         IN  IF head \in st.created THEN mkpath_loop(st, name, i + 1)
             ELSE IF IsDir(st.fs, head)
                  THEN mkpath_loop([st EXCEPT !.created = @ \cup {head}], name, i + 1)
             ELSE IF Exists(st.fs, head) \/ ~IsDir(st.fs, Parent(head)) THEN Raise(st)
             ELSE mkpath_loop([st EXCEPT !.fs = With(@, head, Dir),
                                         !.created = @ \cup {head}], name, i + 1)

\* distutils.dir_util.mkpath(name)
mkpath(st, name) ==
    IF ~st.ok THEN st
    ELSE IF IsDir(st.fs, name) THEN st
    ELSE IF name \in st.created THEN st
    ELSE LET deepest == CHOOSE k \in 0..(Len(name) - 1) :
                 /\ IsDir(st.fs, SubSeq(name, 1, k))
                 /\ \A j \in (k + 1)..(Len(name) - 1) : ~IsDir(st.fs, SubSeq(name, 1, j))
         IN  mkpath_loop(st, name, deepest + 1)

\* distutils.dir_util.copy_tree(src, dst).  The entries of src are visited
\* one after the other; the copy of a subdirectory recurses.
RECURSIVE copy_tree(_, _, _)
RECURSIVE copy_names(_, _, _, _)
copy_names(st, src, dst, names) ==
    IF ~st.ok \/ names = {} THEN st
    ELSE LET n == CHOOSE x \in names : TRUE
             one == IF IsDir(st.fs, src \o <<n>>)
                    THEN copy_tree(st, src \o <<n>>, dst \o <<n>>)
                    ELSE copy_file(st, src \o <<n>>, dst \o <<n>>)
         IN  copy_names(one, src, dst, names \ {n})

copy_tree(st, src, dst) ==
    IF ~st.ok THEN st
    ELSE IF ~IsDir(st.fs, src) THEN Raise(st)
    ELSE copy_names(mkpath(st, dst), src, dst, Listdir(st.fs, src))

----------------------------------------------------------------------------
(* build_template *)

\* SyncScripts without the removal of the old scripts directory.
SyncScripts_keep_old(st, tpath) ==
    copy_tree(st, scripts_path, tpath \o <<SCRIPTS_DIR>>)

\* Lines 132-139: remove the old scripts directory, copy the scripts root.
SyncScripts(st, tpath) ==
    LET tspath == tpath \o <<SCRIPTS_DIR>>
        spath == scripts_path
        removed == IF Exists(st.fs, tspath) THEN rmtree(st, tspath) ELSE st
    IN  copy_tree(removed, spath, tspath)

\* CopyBaseEntry with the target joined to the templates root instead of tpath.
CopyBaseEntry_wrong_target(st, tpath, entry) ==
    LET epath == base_path \o <<entry>>
        target == templates_path \o <<entry>>
    IN  IF ~st.ok THEN st
        ELSE IF IsDir(st.fs, epath)
             THEN copy_tree(IF IsDir(st.fs, target) THEN rmtree(st, target) ELSE st,
                            epath, target)
             ELSE copyfile(IF Exists(st.fs, target) THEN os_remove(st, target) ELSE st,
                           epath, target)

\* Lines 145-156: one iteration of the loop over os.listdir(args.base_path).
CopyBaseEntry(st, tpath, entry) ==
    LET epath == base_path \o <<entry>>
        target == tpath \o <<entry>>
    IN  IF ~st.ok THEN st
        ELSE IF IsDir(st.fs, epath)
             THEN copy_tree(IF IsDir(st.fs, target) THEN rmtree(st, target) ELSE st,
                            epath, target)
             ELSE copyfile(IF Exists(st.fs, target) THEN os_remove(st, target) ELSE st,
                           epath, target)

RECURSIVE CopyBase(_, _, _, _)
CopyBase(st, tpath, order, i) ==
    IF ~st.ok \/ i > Len(order) THEN st
    ELSE CopyBase(CopyBaseEntry(st, tpath, order[i]), tpath, order, i + 1)

\* order is the list os.listdir(args.base_path) returned.
build_template(st, tpath, order) ==
    CopyBase(SyncScripts(st, tpath), tpath, order, 1)

\* The orders in which os.listdir may return the entries of a directory.
Listings(f, p) ==
    LET names == Listdir(f, p)
        n == Cardinality(names)
    IN  {o \in [1..n -> names] : {o[i] : i \in 1..n} = names}

----------------------------------------------------------------------------
(* Validation and version resolution *)

\* do_filesystem_checks without the check for the Armory subdirectory.
do_filesystem_checks_no_armory(f) ==
    /\ \A path \in {templates_path, scripts_path, base_path} : IsDir(f, path)
    /\ \A path \in {templates_path, scripts_path} : IsDir(f, path \o <<".git">>)
    /\ IsDir(f, base_path \o <<"Textures">>)
    /\ IsFile(f, base_path \o <<"description.ext">>)
    /\ IsFile(f, scripts_path \o <<"config.cpp">>)

\* do_filesystem_checks returns (TRUE) or calls sys.exit(1) (FALSE).  Each
\* of the three passes exits when one of its checks failed.
do_filesystem_checks(f) ==
    LET dirs_exist == \A path \in {templates_path, scripts_path, base_path} :
                          IsDir(f, path)
        git_repos == \A path \in {templates_path, scripts_path} :
                          IsDir(f, path \o <<".git">>)
        key_files == /\ IsDir(f, base_path \o <<"Textures">>)
                     /\ IsFile(f, base_path \o <<"description.ext">>)
                     /\ IsFile(f, scripts_path \o <<"config.cpp">>)
                     /\ IsDir(f, scripts_path \o <<"Armory">>)
    IN  IF ~dirs_exist THEN FALSE
        ELSE IF ~git_repos THEN FALSE
        ELSE key_files

Whitespace == {" ", "\n", "\t", "\r"}

\* str.strip(chars): drop the leading and trailing characters that are in chars.
Strip(s, chars) ==
    LET keep == {i \in 1..Len(s) : s[i] \notin chars}
    IN  IF keep = {} THEN <<>>
        ELSE SubSeq(s, CHOOSE i \in keep : \A j \in keep : i <= j,
                       CHOOSE i \in keep : \A j \in keep : j <= i)

\* get_scripts_last_commit measuring the output before it is stripped.
get_scripts_last_commit_raw_len(stdout) ==
    LET date == Strip(Strip(stdout, Whitespace), {"\""})
    IN  IF Len(stdout) # DATE_LEN THEN [ok |-> FALSE, value |-> <<>>]
        ELSE [ok |-> TRUE, value |-> SubSeq(date, 1, DATE_PREFIX)]

\* get_scripts_last_commit on the output of git: [ok, value]; ok = FALSE is
\* sys.exit(1).
get_scripts_last_commit(stdout) ==
    LET date == Strip(Strip(stdout, Whitespace), {"\""})
    IN  IF Len(date) # DATE_LEN THEN [ok |-> FALSE, value |-> <<>>]
        ELSE [ok |-> TRUE, value |-> SubSeq(date, 1, DATE_PREFIX)]

\* Truth value of args.scripts_version: None and '' are false.
Truthy(v) == v.given /\ Len(v.value) > 0

\* ShouldSkip without the check for mission.sqm.
ShouldSkip_no_marker(f, template) ==
    \/ template \in IGNORED
    \/ ~IsDir(f, templates_path \o <<template>>)

\* Lines 207-216: whether the loop skips this entry of the templates root.
ShouldSkip(f, template) ==
    LET tpath == templates_path \o <<template>>
    IN  \/ template \in IGNORED
        \/ ~IsDir(f, tpath)
        \/ ~IsFile(f, tpath \o <<"mission.sqm">>)

\* open(path, 'a'): the data is appended to what the file holds.
open_a(f, path, data) ==
    IF IsDir(f, path) \/ ~IsDir(f, Parent(path)) THEN [fs |-> f, ok |-> FALSE]
    ELSE [fs |-> With(f, path, File((IF IsFile(f, path) THEN f[path].data ELSE <<>>) \o data)),
          ok |-> TRUE]

\* open(path, 'w') followed by the writes of data; [fs, ok].
open_w(f, path, data) ==
    IF IsDir(f, path) \/ ~IsDir(f, Parent(path)) THEN [fs |-> f, ok |-> FALSE]
    ELSE [fs |-> With(f, path, File(data)), ok |-> TRUE]

NoStep == [op |-> "none", entry |-> "", before |-> <<>>, ok |-> TRUE]
Unset == [set |-> FALSE, value |-> <<>>]

----------------------------------------------------------------------------
(* Inputs: the trees the run may find on disk *)

FS(entries) == [p \in {e[1] : e \in entries} |-> (CHOOSE e \in entries : e[1] = p)[2]]
At(root, tree) == {<<root \o e[1], e[2]>> : e \in tree}
Drop(tree, name) == {e \in tree : ~IsPrefix(<<name>>, e[1])}

ScriptsOK ==
    { <<<<>>, Dir>>, <<<<".git">>, Dir>>,
      <<<<"config.cpp">>, File(<<"c", "2">>)>>,
      <<<<"Armory">>, Dir>>, <<<<"Armory", "a.sqf">>, File(<<"a">>)>> }

ScriptsTrees ==
    { ScriptsOK, Drop(ScriptsOK, "Armory"), Drop(ScriptsOK, "config.cpp"),
      Drop(ScriptsOK, ".git"), {} }

BaseOK ==
    { <<<<>>, Dir>>, <<<<"Textures">>, Dir>>,
      <<<<"Textures", "t.paa">>, File(<<"t", "2">>)>>,
      <<<<"description.ext">>, File(<<"d", "2">>)>> }

BaseValidTrees ==
    { BaseOK,
      BaseOK \cup {<<<<"Sounds">>, Dir>>, <<<<"Sounds", "s.ogg">>, File(<<"s", "2">>)>>},
      BaseOK \cup {<<<<"Scripts">>, Dir>>},
      BaseOK \cup {<<<<"Scripts">>, Dir>>, <<<<"Scripts", "z.sqf">>, File(<<"z">>)>>},
      BaseOK \cup {<<<<"Scripts">>, File(<<"z">>)>>} }

BaseTrees ==
    BaseValidTrees \cup {Drop(BaseOK, "Textures"), Drop(BaseOK, "description.ext"), {}}

Fresh == { <<<<>>, Dir>>, <<<<"mission.sqm">>, File(<<"m">>)>> }

TemplateLayouts ==
    { Fresh,
      \* built by an earlier generation of scripts and base files
      Fresh \cup { <<<<"Scripts">>, Dir>>,
                   <<<<"Scripts", "old.sqf">>, File(<<"o">>)>>,
                   <<<<"Scripts", "config.cpp">>, File(<<"c", "1">>)>>,
                   <<<<"Textures">>, Dir>>,
                   <<<<"Textures", "old.paa">>, File(<<"t", "1">>)>>,
                   <<<<"Sounds">>, Dir>>,
                   <<<<"Sounds", "old.ogg">>, File(<<"s", "1">>)>>,
                   <<<<"description.ext">>, File(<<"d", "1">>)>>,
                   <<<<"notes.txt">>, File(<<"n">>)>> },
      \* entries of the wrong kind
      Fresh \cup { <<<<"Scripts">>, File(<<"x">>)>> },
      Fresh \cup { <<<<"Textures">>, File(<<"x">>)>> },
      Fresh \cup { <<<<"description.ext">>, Dir>>,
                   <<<<"description.ext", "x">>, File(<<"x">>)>> },
      \* a directory without mission.sqm, a plain file, nothing
      { <<<<>>, Dir>>, <<<<"Scripts">>, Dir>>,
        <<<<"Scripts", "old.sqf">>, File(<<"o">>)>> },
      { <<<<>>, File(<<"x">>)>> },
      {} }

NormalFrame == { <<<<>>, Dir>>, <<<<".git">>, Dir>>, <<<<"README.md">>, File(<<"r">>)>> }

TemplatesFrames ==
    { NormalFrame,
      { <<<<>>, Dir>>, <<<<".git">>, Dir>>,
        <<<<".git", "mission.sqm">>, File(<<"m">>)>>,
        <<<<"README.md">>, Dir>>,
        <<<<"README.md", "mission.sqm">>, File(<<"m">>)>>,
        <<<<".gitignore">>, File(<<"g">>)>> } }

TemplatesBadFrames ==
    { { <<<<>>, Dir>>, <<<<"README.md">>, File(<<"r">>)>> }, {} }

OldVersionFile == { <<<<>>, File(HEADER_LINE \o <<"o", "l", "d", "\n">>)>> }

VersionFiles == { {}, OldVersionFile }

Manual == <<"2", "0", "2", "4", "-", "0", "1", "-", "0", "1">>
GoodStdout ==
    <<"\"", "2", "0", "2", "4", "-", "0", "7", "-", "2", "6", "T", "1", "2", ":",
      "3", "4", ":", "5", "6", "+", "0", "2", ":", "0", "0", "\"", "\n">>
BareStdout ==
    <<" ", " ", "2", "0", "2", "3", "-", "1", "1", "-", "0", "5", "T", "0", "8",
      ":", "0", "0", ":", "0", "0", "+", "0", "0", ":", "0", "0", "\n">>
ShortStdout ==
    <<"\"", "2", "0", "2", "4", "-", "0", "7", "-", "2", "6", "T", "1", "2", ":",
      "3", "4", ":", "5", "6", "+", "0", "2", "\"", "\n">>
PaddedStdout ==
    <<"\"", " ", "2", "0", "2", "4", "-", "0", "7", "-", "2", "6", "T", "1", "2",
      ":", "3", "4", ":", "5", "6", "+", "0", "2", ":", "0", "0", "\"", "\n">>

Given(s) == [given |-> TRUE, value |-> s]
NotGiven == [given |-> FALSE, value |-> <<>>]

\* (value of -v, output of git)
VersionInputs ==
    { <<Given(Manual), GoodStdout>>, <<Given(Manual), <<>>>>,
      <<Given(<<>>), GoodStdout>>, <<Given(<<>>), <<>>>>,
      <<NotGiven, GoodStdout>>, <<NotGiven, BareStdout>>,
      <<NotGiven, ShortStdout>>, <<NotGiven, PaddedStdout>>, <<NotGiven, <<>>>> }

Disk(scripts, base, frame, desert, altis, vfile) ==
    FS({<<<<>>, Dir>>}
       \cup At(scripts_path, scripts) \cup At(base_path, base)
       \cup At(templates_path, frame)
       \cup (IF frame = {} THEN {}
             ELSE At(templates_path \o <<"Desert">>, desert)
                  \cup At(templates_path \o <<"Altis">>, altis)
                  \cup At(templates_path \o <<SCRIPTS_VERSION_FILE>>, vfile)))

NoMission ==
    { <<<<>>, Dir>>, <<<<"Scripts">>, Dir>>, <<<<"Scripts", "old.sqf">>, File(<<"o">>)>> }

\* Valid roots: the template layouts against the base trees.
SyncDisks ==
    { Disk(ScriptsOK, b, {<<<<>>, Dir>>, <<<<".git">>, Dir>>}, d, a, {}) :
        b \in BaseValidTrees, d \in TemplateLayouts \ {{}},
        a \in {{}, Fresh, NoMission} }

\* Every combination of root trees, valid or not.
RootDisks ==
    { Disk(s, b, f, Fresh, {}, v) :
        s \in ScriptsTrees, b \in BaseTrees,
        f \in TemplatesFrames \cup TemplatesBadFrames, v \in VersionFiles }

\* Valid roots: what scripts_version.txt is before the run.
VersionDisks ==
    { Disk(ScriptsOK, BaseOK, NormalFrame, Fresh, NoMission, v) :
        v \in VersionFiles \cup {{<<<<>>, Dir>>}, Fresh} }

----------------------------------------------------------------------------
(* The run *)

Init ==
    /\ \/ /\ fs \in SyncDisks
          /\ args = [scripts_version |-> Given(Manual)]
          /\ git_stdout = GoodStdout
       \/ /\ fs \in RootDisks
          /\ \E vi \in {<<Given(Manual), <<>>>>, <<NotGiven, GoodStdout>>} :
                /\ args = [scripts_version |-> vi[1]]
                /\ git_stdout = vi[2]
       \/ /\ fs \in VersionDisks
          /\ \E vi \in VersionInputs :
                /\ args = [scripts_version |-> vi[1]]
                /\ git_stdout = vi[2]
    /\ pc = "checks"
    /\ exit_code = NoExit
    /\ scripts_last_commit = Unset
    /\ templates = {}
    /\ path_created = {}
    /\ run = 1
    /\ run_start = fs
    /\ prev_exit = NoExit
    /\ built = {}
    /\ skipped = {}
    /\ git_called = FALSE
    /\ writes = 0
    /\ last = NoStep

\* Line 194.
DoFilesystemChecks ==
    /\ pc = "checks"
    /\ IF do_filesystem_checks(fs)
       THEN pc' = "version" /\ exit_code' = exit_code
       ELSE pc' = "exited" /\ exit_code' = 1
    /\ UNCHANGED <<fs, args, git_stdout, scripts_last_commit, templates,
                   path_created, run, run_start, prev_exit, built, skipped,
                   git_called, writes, last>>

\* Lines 198-202.
ResolveVersion ==
    /\ pc = "version"
    /\ IF Truthy(args.scripts_version)
       THEN /\ scripts_last_commit' = [set |-> TRUE, value |-> args.scripts_version.value]
            /\ pc' = "list"
            /\ UNCHANGED <<exit_code, git_called>>
       ELSE LET r == get_scripts_last_commit(git_stdout)
            IN  /\ git_called' = TRUE
                /\ IF r.ok
                   THEN /\ scripts_last_commit' = [set |-> TRUE, value |-> r.value]
                        /\ pc' = "list"
                        /\ exit_code' = exit_code
                   ELSE /\ scripts_last_commit' = scripts_last_commit
                        /\ pc' = "exited"
                        /\ exit_code' = 1
    /\ UNCHANGED <<fs, args, git_stdout, templates, path_created, run,
                   run_start, prev_exit, built, skipped, writes, last>>

\* Line 206: the for statement evaluates os.listdir(args.templates_path).
ListTemplates ==
    /\ pc = "list"
    /\ templates' = Listdir(fs, templates_path)
    /\ pc' = "loop"
    /\ UNCHANGED <<fs, args, git_stdout, exit_code, scripts_last_commit,
                   path_created, run, run_start, prev_exit, built, skipped,
                   git_called, writes, last>>

\* Lines 207-216: an iteration that ends in a continue.
SkipEntry ==
    /\ pc = "loop"
    /\ \E template \in templates :
          /\ ShouldSkip(fs, template)
          /\ templates' = templates \ {template}
          /\ skipped' = skipped \cup {template}
          /\ last' = [op |-> "skip", entry |-> template, before |-> fs, ok |-> TRUE]
    /\ UNCHANGED <<fs, args, git_stdout, pc, exit_code, scripts_last_commit,
                   path_created, run, run_start, prev_exit, built, git_called, writes>>

\* BuildTemplate with the exception of build_template swallowed: the loop
\* goes on with the next entry.
BuildTemplate_swallow ==
    /\ pc = "loop"
    /\ \E template \in templates :
          /\ ~ShouldSkip(fs, template)
          /\ \E order \in Listings(fs, base_path) :
                LET r == build_template([fs |-> fs, created |-> path_created, ok |-> TRUE],
                                        templates_path \o <<template>>, order)
                IN  /\ fs' = r.fs
                    /\ path_created' = r.created
                    /\ last' = [op |-> "build", entry |-> template,
                                before |-> fs, ok |-> r.ok]
                    /\ built' = IF r.ok THEN built \cup {template} ELSE built
          /\ templates' = templates \ {template}
    /\ UNCHANGED <<args, git_stdout, pc, exit_code, scripts_last_commit, run,
                   run_start, prev_exit, skipped, git_called, writes>>

\* Lines 218-220: an iteration that builds the template.  An exception of
\* build_template ends the process with status 1.
BuildTemplate ==
    /\ pc = "loop"
    /\ \E template \in templates :
          /\ ~ShouldSkip(fs, template)
          /\ \E order \in Listings(fs, base_path) :
                LET r == build_template([fs |-> fs, created |-> path_created, ok |-> TRUE],
                                        templates_path \o <<template>>, order)
                IN  /\ fs' = r.fs
                    /\ path_created' = r.created
                    /\ last' = [op |-> "build", entry |-> template,
                                before |-> fs, ok |-> r.ok]
                    /\ IF r.ok
                       THEN /\ built' = built \cup {template}
                            /\ pc' = pc
                            /\ exit_code' = exit_code
                       ELSE /\ built' = built
                            /\ pc' = "exited"
                            /\ exit_code' = 1
          /\ templates' = templates \ {template}
    /\ UNCHANGED <<args, git_stdout, scripts_last_commit, run, run_start, prev_exit,
                   skipped, git_called, writes>>

\* Lines 223-228, reached when the loop is exhausted.
WriteVersionFile ==
    /\ pc = "loop"
    /\ templates = {}
    /\ LET vfpath == templates_path \o <<SCRIPTS_VERSION_FILE>>
           r == open_w(fs, vfpath, HEADER_LINE \o scripts_last_commit.value \o <<"\n">>)
       IN  /\ fs' = r.fs
           /\ writes' = IF r.ok THEN writes + 1 ELSE writes
           /\ exit_code' = IF r.ok THEN 0 ELSE 1
    /\ pc' = "exited"
    /\ UNCHANGED <<args, git_stdout, scripts_last_commit, templates,
                   path_created, run, run_start, prev_exit, built, skipped,
                   git_called, last>>

\* The tool is invoked again with the same arguments: a new process.
Rerun ==
    /\ pc = "exited"
    /\ run < MaxRuns
    /\ run' = run + 1
    /\ run_start' = fs
    /\ prev_exit' = exit_code
    /\ pc' = "checks"
    /\ exit_code' = NoExit
    /\ scripts_last_commit' = Unset
    /\ templates' = {}
    /\ path_created' = {}
    /\ built' = {}
    /\ skipped' = {}
    /\ git_called' = FALSE
    /\ writes' = 0
    /\ last' = NoStep
    /\ UNCHANGED <<fs, args, git_stdout>>

Next ==
    \/ DoFilesystemChecks
    \/ ResolveVersion
    \/ ListTemplates
    \/ SkipEntry
    \/ BuildTemplate
    \/ WriteVersionFile
    \/ Rerun

Spec == Init /\ [][Next]_vars

TypeOK ==
    /\ pc \in {"checks", "version", "list", "loop", "exited"}
    /\ exit_code \in {NoExit, 0, 1}
    /\ (pc = "exited") = (exit_code # NoExit)
    /\ IsDir(fs, <<>>)
    /\ \A p \in DOMAIN fs : p = <<>> \/ IsDir(fs, Parent(p))

----------------------------------------------------------------------------
(* Properties *)

Tpath(template) == templates_path \o <<template>>
vfpath == templates_path \o <<SCRIPTS_VERSION_FILE>>
NodeAt(f, p) == IF Exists(f, p) THEN {f[p]} ELSE {}

\* Some check of the path validation fails on f.
SomeCheckFails(f) ==
    \/ \E root \in {templates_path, scripts_path, base_path} : ~IsDir(f, root)
    \/ ~IsDir(f, templates_path \o <<".git">>)
    \/ ~IsDir(f, scripts_path \o <<".git">>)
    \/ ~IsDir(f, base_path \o <<"Textures">>)
    \/ ~IsFile(f, base_path \o <<"description.ext">>)
    \/ ~IsFile(f, scripts_path \o <<"config.cpp">>)
    \/ ~IsDir(f, scripts_path \o <<"Armory">>)

\* e is not a template: on the ignore list, not a directory, or a directory
\* without mission.sqm.
NotATemplate(f, e) ==
    \/ e \in {".git", ".gitignore", "README.md"}
    \/ ~IsDir(f, Tpath(e))
    \/ ~IsFile(f, Tpath(e) \o <<"mission.sqm">>)

\* C1 as stated: whatever the Base Assets Root holds, the Scripts subtree of
\* every template that build_template finished is the tree of the Scripts
\* Root.
C1_ScriptsMirror_AnyBase ==
    \A T \in built :
        Subtree(fs, Tpath(T) \o <<"Scripts">>) = Subtree(fs, scripts_path)

\* C1 amended: when the Base Assets Root has no top-level entry named
\* Scripts, the Scripts subtree of every template that build_template
\* finished is exactly the tree of the Scripts Root; nothing of the old
\* subtree survives.
C1_ScriptsMirror ==
    \A T \in built :
        "Scripts" \notin Listdir(fs, base_path) =>
            Subtree(fs, Tpath(T) \o <<"Scripts">>) = Subtree(fs, scripts_path)

C1_Witness ==
    \E T \in built :
        /\ "Scripts" \notin Listdir(fs, base_path)
        /\ IsFile(run_start, Tpath(T) \o <<"Scripts", "old.sqf">>)
        /\ ~Exists(fs, Tpath(T) \o <<"Scripts", "old.sqf">>)
        /\ IsFile(fs, Tpath(T) \o <<"Scripts", "Armory", "a.sqf">>)

\* C2: for every top-level entry E of the Base Assets Root and every
\* template that build_template finished, the template's E is the same tree
\* as the base's E.
C2_BaseEntriesMirror ==
    \A T \in built : \A E \in Listdir(fs, base_path) :
        Subtree(fs, Tpath(T) \o <<E>>) = Subtree(fs, base_path \o <<E>>)

\* C3: a run that follows a successful run, with the same arguments and
\* unchanged roots, succeeds and ends in the filesystem the first one left.
C3_Idempotent ==
    (run > 1 /\ prev_exit = 0 /\ pc = "exited") =>
        (exit_code = 0 /\ fs = run_start)

C3_Witness ==
    /\ run > 1 /\ prev_exit = 0 /\ pc = "exited"
    /\ "Desert" \in built /\ writes = 1
    /\ IsFile(fs, Tpath("Desert") \o <<"notes.txt">>)
    /\ IsFile(fs, Tpath("Desert") \o <<"Sounds", "s.ogg">>)

\* C4: when a check of the validation fails, the run exits with status 1
\* and the filesystem stays as it was: no template is built and
\* scripts_version.txt is not written.
C4_ValidationAborts ==
    SomeCheckFails(run_start) =>
        /\ fs = run_start
        /\ pc \in {"checks", "exited"}
        /\ pc = "exited" => exit_code = 1
        /\ built = {} /\ writes = 0

C4_Witness ==
    /\ pc = "exited" /\ exit_code = 1
    /\ ~SomeCheckFails(With(run_start, scripts_path \o <<"Armory">>, Dir))
    /\ ~Exists(run_start, scripts_path \o <<"Armory">>)
    /\ IsFile(fs, Tpath("Desert") \o <<"mission.sqm">>)

\* The part of C5 that does not depend on which entries are excepted: no
\* entry that is not a template is built, a skip leaves the run going, and
\* a run in which no step failed has built every template and exits 0.
C5_SkipsDoNotAbort ==
    /\ \A e \in Listdir(run_start, templates_path) :
          NotATemplate(run_start, e) => e \notin built
    /\ (last.op = "skip" /\ writes = 0 /\ ~IsDir(fs, vfpath)) =>
          (pc = "loop" /\ exit_code = NoExit)
    /\ (pc = "exited" /\ scripts_last_commit.set /\ ~(last.op = "build" /\ ~last.ok)
            /\ ~IsDir(fs, vfpath)) =>
          /\ exit_code = 0
          /\ \A e \in Listdir(run_start, templates_path) :
                ~NotATemplate(run_start, e) => e \in built

C6_StampOnceAtEnd ==
    /\ writes <= 1
    /\ NodeAt(fs, vfpath) # NodeAt(run_start, vfpath) => writes = 1
    /\ writes = 1 =>
          /\ pc = "exited" /\ exit_code = 0
          /\ Listdir(run_start, templates_path) = built \cup skipped
          /\ \A e \in Listdir(run_start, templates_path) :
                ~NotATemplate(run_start, e) => e \in built
    /\ (pc = "exited" /\ exit_code = 1) =>
          (writes = 0 /\ NodeAt(fs, vfpath) = NodeAt(run_start, vfpath))

C6_Witness ==
    /\ writes = 1 /\ built # {} /\ skipped # {}
    /\ NodeAt(fs, vfpath) # NodeAt(run_start, vfpath)

\* C7: a version given with -v, the empty string included, is the version
\* label verbatim, git is not queried, and the file written is the header
\* line followed by that string.
C7_ManualVerbatim ==
    args.scripts_version.given =>
        /\ ~git_called
        /\ scripts_last_commit.set =>
              scripts_last_commit.value = args.scripts_version.value
        /\ writes = 1 =>
              fs[vfpath].data = HEADER_LINE \o args.scripts_version.value \o <<"\n">>

\* C8: building template T changes nothing but T/Scripts and the top-level
\* entries of T named like an entry of the Base Assets Root: every other
\* path, inside T or outside, is as it was before the build.
C8_Frame ==
    (last.op = "build" /\ writes = 0) =>
        \A p \in DOMAIN fs \cup DOMAIN last.before :
            \/ IsPrefix(Tpath(last.entry) \o <<"Scripts">>, p)
            \/ \E E \in Listdir(last.before, base_path) :
                  IsPrefix(Tpath(last.entry) \o <<E>>, p)
            \/ NodeAt(fs, p) = NodeAt(last.before, p)

C8_Witness ==
    /\ last.op = "build" /\ last.ok /\ writes = 0
    /\ fs # last.before
    /\ IsFile(fs, Tpath(last.entry) \o <<"notes.txt">>)
    /\ \E other \in {"Desert", "Altis"} \ {last.entry} : IsDir(fs, Tpath(other))

Trimmed(stdout) == Strip(Strip(stdout, {" ", "\n", "\t", "\r"}), {"\""})

\* C9: without a manual version, output of git that is not 25 characters
\* long once trimmed ends the run with status 1 before anything is
\* modified; output of 25 characters makes its first 10 the version label.
C9_GitOutput ==
    (~args.scripts_version.given /\ pc \notin {"checks", "version"}
        /\ ~SomeCheckFails(run_start)) =>
        /\ git_called
        /\ IF Len(Trimmed(git_stdout)) # 25
           THEN /\ pc = "exited" /\ exit_code = 1
                /\ fs = run_start /\ built = {} /\ writes = 0
           ELSE scripts_last_commit =
                    [set |-> TRUE, value |-> SubSeq(Trimmed(git_stdout), 1, 10)]

C9_Witness ==
    /\ ~args.scripts_version.given /\ git_called
    /\ Len(git_stdout) = 25 /\ Len(Trimmed(git_stdout)) = 22
    /\ pc = "exited" /\ exit_code = 1
    /\ IsFile(fs, Tpath("Desert") \o <<"mission.sqm">>)

\* C10: build_template finishes without error when T/Scripts is a plain
\* file, when a base directory meets a plain file of its name in T, and
\* when a base file meets a directory of its name in T; the destination
\* then equals the source.
C10_KindMismatchHandled ==
    LET T == Tpath(last.entry)
        b == last.before
    IN  (last.op = "build" /\ writes = 0) =>
            /\ IsFile(b, T \o <<"Scripts">>) =>
                  /\ last.ok
                  /\ "Scripts" \notin Listdir(b, base_path) =>
                        Subtree(fs, T \o <<"Scripts">>) = Subtree(b, scripts_path)
            /\ \A E \in Listdir(b, base_path) :
                  \/ IsDir(b, base_path \o <<E>>) /\ IsFile(b, T \o <<E>>)
                  \/ IsFile(b, base_path \o <<E>>) /\ IsDir(b, T \o <<E>>)
                  => /\ last.ok
                     /\ Subtree(fs, T \o <<E>>) = Subtree(b, base_path \o <<E>>)

====
